---------------------------- MODULE Spec2Model ----------------------------
(***************************************************************************)
(* Model of the video question generator (src/video_processor.py).         *)
(*                                                                         *)
(* Python strings are sequences of one-character strings, so that          *)
(* str.split, str.strip, str.join, len and the regular-expression search   *)
(* are computed character by character, as the interpreter computes them.  *)
(***************************************************************************)
EXTENDS Integers, Sequences, FiniteSets, TLC

VARIABLES
    pc,                 \* position of the (single) thread of control
    MAX_CHUNK_TOKENS,   \* VideoProcessor.MAX_CHUNK_TOKENS (class attribute)
    text,               \* argument of chunk_text
    chunks,             \* value returned by chunk_text
    llm,                \* what ollama.generate did for the chunk at hand
    questions,          \* list of question records at hand
    disk,               \* the working directory and what is below it
    video_files,        \* list returned by find_video_files
    idx,                \* place in video_files of the loop of process_all_videos
    state,              \* per-video state of the orchestration
    transcript,         \* value returned by transcribe_video
    ci,                 \* place in chunks of the loop of generate_questions
    replies,            \* what ollama.generate did for each chunk sent so far
    exit_status,        \* exit status of the process, -1 while it runs
    sent,               \* the chunks handed to ollama.generate for the video
                        \* at hand, in the order of the calls
    outputs             \* per video, what process_video returned having
                        \* written: its transcript and its report

\* the variables of the calls tried one by one
callVars == <<MAX_CHUNK_TOKENS, text, chunks, llm, questions, disk, video_files>>
\* the variables only the batch run changes
runVars == <<idx, state, transcript, ci, replies, exit_status, sent, outputs>>

vars == <<pc, MAX_CHUNK_TOKENS, text, chunks, llm, questions, disk, video_files,
          idx, state, transcript, ci, replies, exit_status, sent, outputs>>

----------------------------------------------------------------------------
(* Bounds of the model *)

\* longest text handed to chunk_text
MaxTextLen == 9
\* largest MAX_CHUNK_TOKENS tried (the shipped value is 3000)
MaxChunkTokens == 1
\* most lines in a model response
MaxLines == 3
\* most question records handed to save_questions
MaxQuestions == 3

----------------------------------------------------------------------------
(* Strings *)

\* the characters str.split() and str.strip() treat as whitespace
Whitespace == {" ", "\n", "\t", "\r"}

\* the characters texts are drawn from
TextAlphabet == {" ", "a", "b"}

\* all sequences over S of length at most n
SeqsUpTo(S, n) == UNION {[1..k -> S] : k \in 0..n}

\* str.join: the strings of parts with sep between neighbours
RECURSIVE join(_, _)
join(sep, parts) ==
    IF parts = <<>> THEN <<>>
    ELSE IF Len(parts) = 1 THEN parts[1]
    ELSE parts[1] \o sep \o join(sep, Tail(parts))

\* str.split() without argument: maximal runs of non-whitespace, in order
RECURSIVE splitFrom(_, _, _)
splitFrom(s, i, word) ==
    IF i > Len(s)
    THEN (IF word = <<>> THEN <<>> ELSE <<word>>)
    ELSE IF s[i] \in Whitespace
         THEN (IF word = <<>> THEN <<>> ELSE <<word>>) \o splitFrom(s, i + 1, <<>>)
         ELSE splitFrom(s, i + 1, Append(word, s[i]))

\* str.split(' '): the pieces between single spaces, empty pieces kept
splitOnSpace(s) ==
    LET seps == {i \in 1..Len(s) : s[i] = " "}
        pos(k) == CHOOSE i \in seps : Cardinality({j \in seps : j < i}) = k - 1
        first(k) == IF k = 1 THEN 1 ELSE pos(k - 1) + 1
        last(k) == IF k = Cardinality(seps) + 1 THEN Len(s) ELSE pos(k) - 1
    IN  [k \in 1..(Cardinality(seps) + 1) |-> SubSeq(s, first(k), last(k))]

split(s) == splitFrom(s, 1, <<>>)

\* the concatenation of a sequence of sequences
RECURSIVE Flatten(_)
Flatten(ss) == IF ss = <<>> THEN <<>> ELSE ss[1] \o Flatten(Tail(ss))

----------------------------------------------------------------------------
(* chunk_text *)

\* characters per token assumed by chunk_text
CharsPerToken == 4

\* chars_per_chunk = self.MAX_CHUNK_TOKENS * 4
chars_per_chunk(max_tokens) == max_tokens * CharsPerToken

\* chunk_text without the trailing `if current_chunk: chunks.append(...)`
RECURSIVE chunkLoopNoFlush(_, _, _, _, _, _)
chunkLoopNoFlush(words, i, budget, done, current_chunk, current_length) ==
    IF i > Len(words)
    THEN done
    ELSE LET word == words[i]
             word_length == Len(word) + 1
         IN  IF current_length + word_length > budget /\ current_chunk # <<>>
             THEN chunkLoopNoFlush(words, i + 1, budget,
                                   Append(done, join(<<" ">>, current_chunk)),
                                   <<word>>, word_length)
             ELSE chunkLoopNoFlush(words, i + 1, budget, done,
                                   Append(current_chunk, word),
                                   current_length + word_length)

\* chunk_text counting len(word) without the separator
RECURSIVE chunkLoopNoSeparator(_, _, _, _, _, _)
chunkLoopNoSeparator(words, i, budget, done, current_chunk, current_length) ==
    IF i > Len(words)
    THEN (IF current_chunk # <<>>
          THEN Append(done, join(<<" ">>, current_chunk))
          ELSE done)
    ELSE LET word == words[i]
             word_length == Len(word)
         IN  IF current_length + word_length > budget /\ current_chunk # <<>>
             THEN chunkLoopNoSeparator(words, i + 1, budget,
                                       Append(done, join(<<" ">>, current_chunk)),
                                       <<word>>, word_length)
             ELSE chunkLoopNoSeparator(words, i + 1, budget, done,
                                       Append(current_chunk, word),
                                       current_length + word_length)

\* chunk_text counting two separators for every word
RECURSIVE chunkLoopTwoSeparators(_, _, _, _, _, _)
chunkLoopTwoSeparators(words, i, budget, done, current_chunk, current_length) ==
    IF i > Len(words)
    THEN (IF current_chunk # <<>>
          THEN Append(done, join(<<" ">>, current_chunk))
          ELSE done)
    ELSE LET word == words[i]
             word_length == Len(word) + 2
         IN  IF current_length + word_length > budget /\ current_chunk # <<>>
             THEN chunkLoopTwoSeparators(words, i + 1, budget,
                                         Append(done, join(<<" ">>, current_chunk)),
                                         <<word>>, word_length)
             ELSE chunkLoopTwoSeparators(words, i + 1, budget, done,
                                         Append(current_chunk, word),
                                         current_length + word_length)

\* chunk_text cutting as soon as the count reaches the budget
RECURSIVE chunkLoopGreaterEqual(_, _, _, _, _, _)
chunkLoopGreaterEqual(words, i, budget, done, current_chunk, current_length) ==
    IF i > Len(words)
    THEN (IF current_chunk # <<>>
          THEN Append(done, join(<<" ">>, current_chunk))
          ELSE done)
    ELSE LET word == words[i]
             word_length == Len(word) + 1
         IN  IF current_length + word_length >= budget /\ current_chunk # <<>>
             THEN chunkLoopGreaterEqual(words, i + 1, budget,
                                        Append(done, join(<<" ">>, current_chunk)),
                                        <<word>>, word_length)
             ELSE chunkLoopGreaterEqual(words, i + 1, budget, done,
                                        Append(current_chunk, word),
                                        current_length + word_length)

\* chunk_text opening a chunk without counting the word that opens it
RECURSIVE chunkLoopForgetsLength(_, _, _, _, _, _)
chunkLoopForgetsLength(words, i, budget, done, current_chunk, current_length) ==
    IF i > Len(words)
    THEN (IF current_chunk # <<>>
          THEN Append(done, join(<<" ">>, current_chunk))
          ELSE done)
    ELSE LET word == words[i]
             word_length == Len(word) + 1
         IN  IF current_length + word_length > budget /\ current_chunk # <<>>
             THEN chunkLoopForgetsLength(words, i + 1, budget,
                                         Append(done, join(<<" ">>, current_chunk)),
                                         <<word>>, 0)
             ELSE chunkLoopForgetsLength(words, i + 1, budget, done,
                                         Append(current_chunk, word),
                                         current_length + word_length)

\* the loop of chunk_text over words[i..], carrying chunks, current_chunk
\* and current_length; the trailing `if current_chunk` is the base case
RECURSIVE chunkLoop(_, _, _, _, _, _)
chunkLoop(words, i, budget, done, current_chunk, current_length) ==
    IF i > Len(words)
    THEN (IF current_chunk # <<>>
          THEN Append(done, join(<<" ">>, current_chunk))
          ELSE done)
    ELSE LET word == words[i]
             word_length == Len(word) + 1
         IN  IF current_length + word_length > budget /\ current_chunk # <<>>
             THEN chunkLoop(words, i + 1, budget,
                            Append(done, join(<<" ">>, current_chunk)),
                            <<word>>, word_length)
             ELSE chunkLoop(words, i + 1, budget, done,
                            Append(current_chunk, word),
                            current_length + word_length)

\* chunk_text returning one empty chunk where the text has no word
chunk_text_never_empty(s, max_tokens) ==
    IF split(s) = <<>> THEN << <<>> >>
    ELSE chunkLoop(split(s), 1, chars_per_chunk(max_tokens), <<>>, <<>>, 0)

chunk_text(s, max_tokens) ==
    chunkLoop(split(s), 1, chars_per_chunk(max_tokens), <<>>, <<>>, 0)

----------------------------------------------------------------------------
(* More of str *)

RECURSIVE lstrip(_)
lstrip(s) == IF s # <<>> /\ s[1] \in Whitespace THEN lstrip(Tail(s)) ELSE s

RECURSIVE rstrip(_)
rstrip(s) ==
    IF s # <<>> /\ s[Len(s)] \in Whitespace
    THEN rstrip(SubSeq(s, 1, Len(s) - 1))
    ELSE s

\* str.strip()
strip(s) == rstrip(lstrip(s))

\* str.split(c): the pieces between occurrences of c, empty pieces kept;
\* splitOnFrom gives the pieces of s from index i on
RECURSIVE splitOnFrom(_, _, _)
splitOnFrom(s, c, i) ==
    IF \E j \in i..Len(s) : s[j] = c
    THEN LET j == CHOOSE j \in i..Len(s) :
                     s[j] = c /\ \A k \in i..(j - 1) : s[k] # c
         IN  <<SubSeq(s, i, j - 1)>> \o splitOnFrom(s, c, j + 1)
    ELSE <<SubSeq(s, i, Len(s))>>

splitOn(s, c) == splitOnFrom(s, c, 1)

\* c in s
contains(s, c) == \E i \in 1..Len(s) : s[i] = c

----------------------------------------------------------------------------
(* The strings the program names *)

\* 'question'
S_question ==
    <<"q", "u", "e", "s", "t", "i", "o", "n">>

\* 'speaker'
S_speaker ==
    <<"s", "p", "e", "a", "k", "e", "r">>

\* 'type'
S_type ==
    <<"t", "y", "p", "e">>

\* 'unknown'
S_unknown ==
    <<"u", "n", "k", "n", "o", "w", "n">>

\* 'general'
S_general ==
    <<"g", "e", "n", "e", "r", "a", "l">>

\* 'interviewer'
S_interviewer ==
    <<"i", "n", "t", "e", "r", "v", "i", "e", "w", "e", "r">>

\* 'interviewee'
S_interviewee ==
    <<"i", "n", "t", "e", "r", "v", "i", "e", "w", "e", "e">>

\* 'technical'
S_technical ==
    <<"t", "e", "c", "h", "n", "i", "c", "a", "l">>

\* 'behavioral'
S_behavioral ==
    <<"b", "e", "h", "a", "v", "i", "o", "r", "a", "l">>

----------------------------------------------------------------------------
(* Python values: what json.loads returns and what the parsers build.     *)
(* A dict is its sequence of <<key, value>> items, in insertion order.   *)

PyList(items) == [kind |-> "list", items |-> items]
PyDict(pairs) == [kind |-> "dict", pairs |-> pairs]
PyStr(chars) == [kind |-> "str", chars |-> chars]
PyInt(digits) == [kind |-> "int", digits |-> digits]
PyLit(name) == [kind |-> "lit", name |-> name]

\* d[key] = value
dictSet(pairs, key, value) ==
    IF \E i \in 1..Len(pairs) : pairs[i][1] = key
    THEN [i \in 1..Len(pairs) |->
             IF pairs[i][1] = key THEN <<key, value>> ELSE pairs[i]]
    ELSE Append(pairs, <<key, value>>)

\* d.get(key, default)
dictGet(d, key, default) ==
    IF \E i \in 1..Len(d.pairs) : d.pairs[i][1] = key
    THEN d.pairs[CHOOSE i \in 1..Len(d.pairs) : d.pairs[i][1] = key][2]
    ELSE default

----------------------------------------------------------------------------
(* json.loads, for JSON texts made of arrays, objects, strings without    *)
(* escapes, unsigned integers and the literals true, false and null.      *)

Digits == {"0", "1", "2", "3", "4", "5", "6", "7", "8", "9"}

\* the result of a parsing step: the value and the index after it
Parsed(v, p) == [ok |-> TRUE, val |-> v, pos |-> p]
\* json.JSONDecodeError
DecodeError == [ok |-> FALSE, val |-> <<>>, pos |-> 0]

\* the first index from i on that holds no JSON whitespace
RECURSIVE skipWs(_, _)
skipWs(s, i) ==
    IF i <= Len(s) /\ s[i] \in Whitespace THEN skipWs(s, i + 1) ELSE i

\* s has the characters of word from index i on
hasPrefix(s, i, word) ==
    /\ i + Len(word) - 1 <= Len(s)
    /\ \A k \in 1..Len(word) : s[i + k - 1] = word[k]

\* a string: s[i] is the opening quote; control characters and
\* backslashes end the parse
parseString(s, i) ==
    IF \E j \in (i + 1)..Len(s) : s[j] = "\""
    THEN LET j == CHOOSE j \in (i + 1)..Len(s) :
                     /\ s[j] = "\""
                     /\ \A k \in (i + 1)..(j - 1) : s[k] # "\""
             body == SubSeq(s, i + 1, j - 1)
         IN  IF \E k \in 1..Len(body) : body[k] \in {"\n", "\t", "\r", "\\"}
             THEN DecodeError
             ELSE Parsed(PyStr(body), j + 1)
    ELSE DecodeError

\* the index after the run of digits that starts at i
RECURSIVE digitsEnd(_, _)
digitsEnd(s, i) ==
    IF i <= Len(s) /\ s[i] \in Digits THEN digitsEnd(s, i + 1) ELSE i

\* an integer: 0, or a digit from 1 to 9 followed by digits
parseNumber(s, i) ==
    LET j == IF s[i] = "0" THEN i + 1 ELSE digitsEnd(s, i)
    IN  Parsed(PyInt(SubSeq(s, i, j - 1)), j)

RECURSIVE parseValue(_, _)
RECURSIVE parseElements(_, _, _)
RECURSIVE parseMembers(_, _, _)

\* the value that starts at index i
parseValue(s, i) ==
    IF i > Len(s) THEN DecodeError
    ELSE IF s[i] = "["
    THEN LET j == skipWs(s, i + 1)
         IN  IF j <= Len(s) /\ s[j] = "]"
             THEN Parsed(PyList(<<>>), j + 1)
             ELSE parseElements(s, j, <<>>)
    ELSE IF s[i] = "{"
    THEN LET j == skipWs(s, i + 1)
         IN  IF j <= Len(s) /\ s[j] = "}"
             THEN Parsed(PyDict(<<>>), j + 1)
             ELSE parseMembers(s, j, <<>>)
    ELSE IF s[i] = "\"" THEN parseString(s, i)
    ELSE IF s[i] \in Digits THEN parseNumber(s, i)
    ELSE IF hasPrefix(s, i, <<"n", "u", "l", "l">>)
    THEN Parsed(PyLit("None"), i + 4)
    ELSE IF hasPrefix(s, i, <<"t", "r", "u", "e">>)
    THEN Parsed(PyLit("True"), i + 4)
    ELSE IF hasPrefix(s, i, <<"f", "a", "l", "s", "e">>)
    THEN Parsed(PyLit("False"), i + 5)
    ELSE DecodeError

\* the elements of an array from index i on, after those of items
parseElements(s, i, items) ==
    LET r == parseValue(s, i)
        j == skipWs(s, r.pos)
    IN  IF ~r.ok \/ j > Len(s) THEN DecodeError
        ELSE IF s[j] = "]" THEN Parsed(PyList(Append(items, r.val)), j + 1)
        ELSE IF s[j] = ","
        THEN parseElements(s, skipWs(s, j + 1), Append(items, r.val))
        ELSE DecodeError

\* the members of an object from index i on, after those of pairs
parseMembers(s, i, pairs) ==
    IF i > Len(s) \/ s[i] # "\"" THEN DecodeError
    ELSE LET k == parseString(s, i)
             c == skipWs(s, k.pos)
         IN  IF ~k.ok \/ c > Len(s) \/ s[c] # ":" THEN DecodeError
             ELSE LET r == parseValue(s, skipWs(s, c + 1))
                      j == skipWs(s, r.pos)
                      more == dictSet(pairs, k.val.chars, r.val)
                  IN  IF ~r.ok \/ j > Len(s) THEN DecodeError
                      ELSE IF s[j] = "}" THEN Parsed(PyDict(more), j + 1)
                      ELSE IF s[j] = ","
                      THEN parseMembers(s, skipWs(s, j + 1), more)
                      ELSE DecodeError

\* json.loads(s): one value, whitespace around it, nothing else
json_loads(s) ==
    LET r == parseValue(s, skipWs(s, 1))
    IN  IF r.ok /\ skipWs(s, r.pos) > Len(s) THEN r ELSE DecodeError

----------------------------------------------------------------------------
(* re.search(r'\[.*\]', s, re.DOTALL): the leftmost "[" that has a "]"     *)
(* after it, and, the star being greedy and the dot matching newlines,    *)
(* everything up to the last "]" of s.                                    *)

NoMatch == [found |-> FALSE, group |-> <<>>]

re_search_brackets(s) ==
    IF \E i \in 1..Len(s) : \E j \in (i + 1)..Len(s) : s[i] = "[" /\ s[j] = "]"
    THEN LET first == CHOOSE i \in 1..Len(s) :
                         /\ s[i] = "["
                         /\ \A k \in 1..(i - 1) : s[k] # "["
             last == CHOOSE j \in 1..Len(s) :
                         /\ s[j] = "]"
                         /\ \A k \in (j + 1)..Len(s) : s[k] # "]"
         IN  [found |-> TRUE, group |-> SubSeq(s, first, last)]
    ELSE NoMatch

----------------------------------------------------------------------------
(* _parse_questions_manually *)

\* shortest stripped line that is not taken for a question
QuestionMinLen == 10

\* the record the manual parser builds for a line
manualRecord(line) ==
    PyDict(<< <<S_question, PyStr(line)>>,
              <<S_speaker, PyStr(S_unknown)>>,
              <<S_type, PyStr(S_general)>> >>)

\* the manual parser without the trailing `if current_question`
RECURSIVE manualLoopNoLast(_, _, _, _)
manualLoopNoLast(lines, i, found, current_question) ==
    IF i > Len(lines)
    THEN found
    ELSE LET line == strip(lines[i])
         IN  IF contains(line, "?") /\ Len(line) > QuestionMinLen
             THEN manualLoopNoLast(lines, i + 1,
                                   IF current_question # <<>>
                                   THEN Append(found, current_question[1])
                                   ELSE found,
                                   <<manualRecord(line)>>)
             ELSE manualLoopNoLast(lines, i + 1, found, current_question)

\* the loop over lines[i..], carrying questions and current_question
\* (<<>> for the empty dict); the trailing `if current_question` is the
\* base case
RECURSIVE manualLoop(_, _, _, _)
manualLoop(lines, i, found, current_question) ==
    IF i > Len(lines)
    THEN (IF current_question # <<>>
          THEN Append(found, current_question[1])
          ELSE found)
    ELSE LET line == strip(lines[i])
         IN  IF contains(line, "?") /\ Len(line) > QuestionMinLen
             THEN manualLoop(lines, i + 1,
                             IF current_question # <<>>
                             THEN Append(found, current_question[1])
                             ELSE found,
                             <<manualRecord(line)>>)
             ELSE manualLoop(lines, i + 1, found, current_question)

parse_questions_manually(response_text) ==
    manualLoop(splitOn(response_text, "\n"), 1, <<>>, <<>>)

----------------------------------------------------------------------------
(* generate_questions_from_chunk *)

\* what ollama.generate did: raised, or returned a response
Raised == [raised |-> TRUE, response |-> <<>>]
Responded(s) == [raised |-> FALSE, response |-> s]

\* the list returned for a chunk, given what ollama.generate did
generate_questions_from_chunk(reply) ==
    IF reply.raised THEN <<>>
    ELSE LET response_text == strip(reply.response)
             json_match == re_search_brackets(response_text)
         IN  IF json_match.found
             THEN LET loaded == json_loads(json_match.group)
                  IN  IF loaded.ok
                      THEN (IF loaded.val.kind = "list"
                            THEN loaded.val.items
                            ELSE <<>>)
                      ELSE <<>>
             ELSE parse_questions_manually(response_text)

----------------------------------------------------------------------------
(* Lines of model responses *)

\* 'What is it?'
LineQuestion ==
    <<"W", "h", "a", "t", " ", "i", "s", " ", "i", "t", "?">>

\* 'Is it ok ?'
LineTenChars ==
    <<"I", "s", " ", "i", "t", " ", "o", "k", " ", "?">>

\* '  Is it so?  '
LinePadded ==
    <<" ", " ", "I", "s", " ", "i", "t", " ", "s", "o", "?", " ", " ">>

\* 'No questions'
LineStatement ==
    <<"N", "o", " ", "q", "u", "e", "s", "t", "i", "o", "n", "s">>

\* ''
LineEmpty == <<>>

\* '[]'
LineJsonEmpty ==
    <<"[", "]">>

\* '[{"question": "Who?", "speaker": "interviewer", "type": "technical"}]'
LineJsonRecord ==
    <<"[", "{", "\"", "q", "u", "e", "s", "t", "i", "o", "n", "\"", ":",
      " ", "\"", "W", "h", "o", "?", "\"", ",", " ", "\"", "s", "p", "e",
      "a", "k", "e", "r", "\"", ":", " ", "\"", "i", "n", "t", "e", "r",
      "v", "i", "e", "w", "e", "r", "\"", ",", " ", "\"", "t", "y", "p",
      "e", "\"", ":", " ", "\"", "t", "e", "c", "h", "n", "i", "c", "a",
      "l", "\"", "}", "]">>

\* '[{"question": "Why is it so?"}]'
LineJsonPartial ==
    <<"[", "{", "\"", "q", "u", "e", "s", "t", "i", "o", "n", "\"", ":",
      " ", "\"", "W", "h", "y", " ", "i", "s", " ", "i", "t", " ", "s",
      "o", "?", "\"", "}", "]">>

\* '[{"question": "Who?", "speaker": "boss"}]'
LineJsonBoss ==
    <<"[", "{", "\"", "q", "u", "e", "s", "t", "i", "o", "n", "\"", ":",
      " ", "\"", "W", "h", "o", "?", "\"", ",", " ", "\"", "s", "p", "e",
      "a", "k", "e", "r", "\"", ":", " ", "\"", "b", "o", "s", "s", "\"",
      "}", "]">>

\* '[What is that?]'
LineBadJson ==
    <<"[", "W", "h", "a", "t", " ", "i", "s", " ", "t", "h", "a", "t", "?",
      "]">>

\* '{"a": [1]}'
LineNested ==
    <<"{", "\"", "a", "\"", ":", " ", "[", "1", "]", "}">>

\* 'Why? ] and ['
LineReversed ==
    <<"W", "h", "y", "?", " ", "]", " ", "a", "n", "d", " ", "[">>

LinePool ==
    {LineQuestion,
     LineTenChars,
     LinePadded,
     LineStatement,
     LineEmpty,
     LineJsonEmpty,
     LineJsonRecord,
     LineJsonPartial,
     LineJsonBoss,
     LineBadJson,
     LineNested,
     LineReversed}

----------------------------------------------------------------------------
(* Paths and the disk.  A path is the sequence of its names below the     *)
(* working directory; the disk maps every path that exists to its node.   *)

File(content) == [kind |-> "file", content |-> content]
Dir == [kind |-> "dir", content |-> <<>>]

\* the disk d with the file at path p written (created or replaced)
WriteFile(d, p, content) ==
    [q \in DOMAIN d \cup {p} |-> IF q = p THEN File(content) ELSE d[q]]

\* Path.unlink(missing_ok=True)
Unlink(d, p) == [q \in DOMAIN d \ {p} |-> d[q]]

\* Path.mkdir(exist_ok=True) on a path that is absent or a directory
Mkdir(d, p) == [q \in DOMAIN d \cup {p} |-> IF q = p THEN Dir ELSE d[q]]

UpperCase ==
    <<"A", "B", "C", "D", "E", "F", "G", "H", "I", "J", "K", "L", "M",
      "N", "O", "P", "Q", "R", "S", "T", "U", "V", "W", "X", "Y", "Z">>
LowerCase ==
    <<"a", "b", "c", "d", "e", "f", "g", "h", "i", "j", "k", "l", "m",
      "n", "o", "p", "q", "r", "s", "t", "u", "v", "w", "x", "y", "z">>

\* str.lower()
lower(s) ==
    [i \in 1..Len(s) |->
        IF \E k \in 1..26 : UpperCase[k] = s[i]
        THEN LowerCase[CHOOSE k \in 1..26 : UpperCase[k] = s[i]]
        ELSE s[i]]

\* the characters of file names, in code point order
CodePointOrder ==
    <<".", "0", "1", "2", "3", "4", "5", "6", "7", "8", "9">> \o UpperCase
        \o <<"_">> \o LowerCase

ord(c) == CHOOSE k \in 1..Len(CodePointOrder) : CodePointOrder[k] = c

\* s < t for strings
RECURSIVE strLess(_, _)
strLess(s, t) ==
    IF t = <<>> THEN FALSE
    ELSE IF s = <<>> THEN TRUE
    ELSE IF s[1] = t[1] THEN strLess(Tail(s), Tail(t))
    ELSE ord(s[1]) < ord(t[1])

\* p < q for paths: by their names, from the first
RECURSIVE pathLess(_, _)
pathLess(p, q) ==
    IF q = <<>> THEN FALSE
    ELSE IF p = <<>> THEN TRUE
    ELSE IF p[1] = q[1] THEN pathLess(Tail(p), Tail(q))
    ELSE strLess(p[1], q[1])

\* sorted(paths)
RECURSIVE sorted(_)
sorted(paths) ==
    IF paths = {} THEN <<>>
    ELSE LET least == CHOOSE p \in paths :
                         \A q \in paths \ {p} : pathLess(p, q)
         IN  <<least>> \o sorted(paths \ {least})

\* Path.name
name(p) == p[Len(p)]

\* Path.suffix: from the last dot of the name, unless that dot is the
\* first or the last character of the name
suffix(p) ==
    LET n == name(p)
        dots == {i \in 1..Len(n) : n[i] = "."}
    IN  IF dots = {} THEN <<>>
        ELSE LET i == CHOOSE i \in dots : \A k \in dots : k <= i
             IN  IF 1 < i /\ i < Len(n) THEN SubSeq(n, i, Len(n)) ELSE <<>>

\* Path.stem
stem(p) == SubSeq(name(p), 1, Len(name(p)) - Len(suffix(p)))

\* Path.with_suffix(ext)
with_suffix(p, ext) == SubSeq(p, 1, Len(p) - 1) \o <<stem(p) \o ext>>

\* Path.iterdir() of the working directory
iterdir(d) == {p \in DOMAIN d : Len(p) = 1}

----------------------------------------------------------------------------
(* find_video_files *)

SUPPORTED_EXTENSIONS ==
    {<<".", "m", "p", "4">>,
     <<".", "a", "v", "i">>,
     <<".", "m", "o", "v">>,
     <<".", "m", "k", "v">>,
     <<".", "w", "m", "v">>,
     <<".", "f", "l", "v">>,
     <<".", "w", "e", "b", "m">>,
     <<".", "m", "4", "v">>,
     <<".", "3", "g", "p">>,
     <<".", "o", "g", "v">>}

\* find_video_files with Path.rglob in place of Path.iterdir
find_video_files_recursive(d) ==
    sorted({file_path \in DOMAIN d :
               /\ d[file_path].kind = "file"
               /\ lower(suffix(file_path)) \in SUPPORTED_EXTENSIONS})

find_video_files(d) ==
    sorted({file_path \in iterdir(d) :
               /\ d[file_path].kind = "file"
               /\ lower(suffix(file_path)) \in SUPPORTED_EXTENSIONS})

----------------------------------------------------------------------------
(* save_transcript and save_questions *)

\* 'transcribed'
S_transcribed ==
    <<"t", "r", "a", "n", "s", "c", "r", "i", "b", "e", "d">>

\* 'questions'
S_questions ==
    <<"q", "u", "e", "s", "t", "i", "o", "n", "s">>

\* '_transcript.txt'
S_transcript_txt ==
    <<"_", "t", "r", "a", "n", "s", "c", "r", "i", "p", "t", ".", "t", "x",
      "t">>

\* '_questions.json'
S_questions_json ==
    <<"_", "q", "u", "e", "s", "t", "i", "o", "n", "s", ".", "j", "s", "o",
      "n">>

\* '.wav'
S_wav ==
    <<".", "w", "a", "v">>

\* self.transcribed_dir / f"{video_path.stem}_transcript.txt"
\* the transcript file named after the whole name of the video
transcript_file_of_name(video_path) ==
    <<S_transcribed, name(video_path) \o S_transcript_txt>>

transcript_file(video_path) == <<S_transcribed, stem(video_path) \o S_transcript_txt>>

\* self.questions_dir / f"{video_path.stem}_questions.json"
questions_file(video_path) == <<S_questions, stem(video_path) \o S_questions_json>>

\* video_path.with_suffix('.wav')
audio_path(video_path) == with_suffix(video_path, S_wav)

\* the disk after save_transcript
save_transcript(d, video_path, transcript_text) ==
    WriteFile(d, transcript_file(video_path), transcript_text)

SpeakerBuckets == {S_interviewer, S_interviewee, S_unknown}
TypeBuckets == {S_technical, S_behavioral, S_general}

\* an exception left save_questions before the file was opened
SaveRaised == [raised |-> TRUE, report |-> <<>>]

\* the loop of save_questions leaving out of by_speaker the records that
\* name no speaker
RECURSIVE categorizeNamedOnly(_, _, _, _)
categorizeNamedOnly(qs, i, by_speaker, by_type) ==
    IF i > Len(qs)
    THEN [raised |-> FALSE, by_speaker |-> by_speaker, by_type |-> by_type]
    ELSE LET question == qs[i]
         IN  IF question.kind # "dict"
             THEN [raised |-> TRUE, by_speaker |-> by_speaker, by_type |-> by_type]
             ELSE LET speaker == dictGet(question, S_speaker, PyStr(S_unknown))
                      question_type == dictGet(question, S_type, PyStr(S_general))
                      named == \E k \in 1..Len(question.pairs) :
                                   question.pairs[k][1] = S_speaker
                  IN  IF \/ speaker.kind # "str"
                         \/ speaker.chars \notin SpeakerBuckets
                         \/ question_type.kind # "str"
                         \/ question_type.chars \notin TypeBuckets
                      THEN [raised |-> TRUE, by_speaker |-> by_speaker,
                            by_type |-> by_type]
                      ELSE categorizeNamedOnly(qs, i + 1,
                               IF named
                               THEN [by_speaker EXCEPT
                                        ![speaker.chars] = Append(@, question)]
                               ELSE by_speaker,
                               [by_type EXCEPT
                                   ![question_type.chars] = Append(@, question)])

\* the loop that categorizes questions[i..]; a question that is no dict
\* has no get (AttributeError), a speaker or type that names no bucket
\* is a KeyError, or a TypeError when it cannot be hashed
RECURSIVE categorize(_, _, _, _)
categorize(qs, i, by_speaker, by_type) ==
    IF i > Len(qs)
    THEN [raised |-> FALSE, by_speaker |-> by_speaker, by_type |-> by_type]
    ELSE LET question == qs[i]
         IN  IF question.kind # "dict"
             THEN [raised |-> TRUE, by_speaker |-> by_speaker, by_type |-> by_type]
             ELSE LET speaker == dictGet(question, S_speaker, PyStr(S_unknown))
                      question_type == dictGet(question, S_type, PyStr(S_general))
                  IN  IF \/ speaker.kind # "str"
                         \/ speaker.chars \notin SpeakerBuckets
                         \/ question_type.kind # "str"
                         \/ question_type.chars \notin TypeBuckets
                      THEN [raised |-> TRUE, by_speaker |-> by_speaker,
                            by_type |-> by_type]
                      ELSE categorize(qs, i + 1,
                               [by_speaker EXCEPT
                                   ![speaker.chars] = Append(@, question)],
                               [by_type EXCEPT
                                   ![question_type.chars] = Append(@, question)])

\* organized_questions, or the exception raised while building it
organize(video_path, qs) ==
    LET sorted_into == categorize(qs, 1,
                           [b \in SpeakerBuckets |-> <<>>],
                           [b \in TypeBuckets |-> <<>>])
    IN  IF sorted_into.raised THEN SaveRaised
        ELSE [raised |-> FALSE,
              report |-> [video_name |-> name(video_path),
                          total_questions |-> Len(qs),
                          by_speaker |-> sorted_into.by_speaker,
                          by_type |-> sorted_into.by_type,
                          all_questions |-> qs]]

\* the disk after save_questions returned
save_questions(d, video_path, qs) ==
    WriteFile(d, questions_file(video_path), organize(video_path, qs).report)

----------------------------------------------------------------------------
(* Question records and directory entries the operations are tried on *)

\* a record with the given question, speaker and type
QuestionRecord(q, speaker, question_type) ==
    PyDict(<< <<S_question, PyStr(q)>>,
              <<S_speaker, PyStr(speaker)>>,
              <<S_type, PyStr(question_type)>> >>)

RecordPool ==
    {manualRecord(LineQuestion),
     QuestionRecord(<<"W", "h", "o", "?">>, S_interviewer, S_technical),
     QuestionRecord(<<"W", "h", "y", "?">>, S_interviewee, S_behavioral),
     QuestionRecord(<<"H", "o", "w", "?">>, S_interviewer, S_general),
     PyDict(<< <<S_question, PyStr(<<"W", "h", "o", "?">>)>> >>),
     QuestionRecord(<<"W", "h", "o", "?">>, <<"b", "o", "s", "s">>, S_general),
     PyInt(<<"1">>)}

\* 'a.mp4'
N_a_mp4 ==
    <<"a", ".", "m", "p", "4">>

\* 'B.MOV'
N_B_MOV ==
    <<"B", ".", "M", "O", "V">>

\* 'a.avi'
N_a_avi ==
    <<"a", ".", "a", "v", "i">>

\* 'c.txt'
N_c_txt ==
    <<"c", ".", "t", "x", "t">>

\* '.mp4'
N_dot_mp4 ==
    <<".", "m", "p", "4">>

\* 'd.x.mkv'
N_d_x_mkv ==
    <<"d", ".", "x", ".", "m", "k", "v">>

\* 'ogv'
N_ogv ==
    <<"o", "g", "v">>

\* 'sub'
N_sub ==
    <<"s", "u", "b">>

\* 'e.mp4'
N_e_mp4 ==
    <<"e", ".", "m", "p", "4">>

\* 'f.avi'
N_f_avi ==
    <<"f", ".", "a", "v", "i">>

\* the video the harness of save_questions is called with
HarnessVideo == <<N_a_mp4>>

\* the directories __init__ makes
OutputDirs == [p \in {<<S_transcribed>>, <<S_questions>>} |-> Dir]

\* entries a working directory may hold besides the output directories
EntryPool ==
    {<< <<N_a_mp4>>, "file">>, << <<N_B_MOV>>, "file">>,
     << <<N_c_txt>>, "file">>, << <<N_dot_mp4>>, "file">>,
     << <<N_d_x_mkv>>, "file">>, << <<N_ogv>>, "file">>,
     << <<N_sub>>, "dir">>, << <<N_sub, N_e_mp4>>, "file">>,
     << <<N_f_avi>>, "dir">>}

\* the disk that holds the output directories and the given entries
DiskOf(entries) ==
    [p \in DOMAIN OutputDirs \cup {e[1] : e \in entries} |->
        IF p \in DOMAIN OutputDirs THEN Dir
        ELSE IF << p, "dir" >> \in entries THEN Dir ELSE File(<<>>)]

\* the run variables while no batch runs
NoRun ==
    /\ idx = 0
    /\ state = [v \in {} |-> "Discovered"]
    /\ transcript = <<>>
    /\ ci = 0
    /\ replies = <<>>
    /\ exit_status = -1
    /\ sent = <<>>
    /\ outputs = [v \in {} |-> <<>>]

\* the working directories: every entry below a directory that exists
Disks ==
    {DiskOf(entries) : entries \in
        {es \in SUBSET EntryPool :
            \A e \in es : Len(e[1]) = 2 => << <<e[1][1]>>, "dir" >> \in es}}

----------------------------------------------------------------------------
(* Specification of chunk_text on every text and budget of the bounds *)

InitChunk ==
    /\ pc = "call_chunk_text"
    /\ MAX_CHUNK_TOKENS \in 1..MaxChunkTokens
    /\ text \in SeqsUpTo(TextAlphabet, MaxTextLen)
    /\ chunks = <<>>
    /\ llm = Raised
    /\ questions = <<>>
    /\ disk = OutputDirs
    /\ video_files = <<>>
    /\ NoRun

ChunkText ==
    /\ pc = "call_chunk_text"
    /\ chunks' = chunk_text(text, MAX_CHUNK_TOKENS)
    /\ pc' = "ret_chunk_text"
    /\ UNCHANGED <<MAX_CHUNK_TOKENS, text, llm, questions, disk, video_files, runVars>>

NextChunk == ChunkText

SpecChunk == InitChunk /\ [][NextChunk]_vars

----------------------------------------------------------------------------
(* Specification of the parsers on every response of the bounds *)

\* the responses: at most MaxLines lines of the pool
Responses ==
    {join(<<"\n">>, ls) : ls \in SeqsUpTo(LinePool, MaxLines)}

InitParse ==
    /\ pc = "call_parse"
    /\ MAX_CHUNK_TOKENS = 1
    /\ text = <<>>
    /\ chunks = <<>>
    /\ llm \in {Raised} \cup {Responded(r) : r \in Responses}
    /\ questions = <<>>
    /\ disk = OutputDirs
    /\ video_files = <<>>
    /\ NoRun

GenerateQuestionsFromChunk ==
    /\ pc = "call_parse"
    /\ questions' = generate_questions_from_chunk(llm)
    /\ pc' = "ret_generate_questions_from_chunk"
    /\ UNCHANGED <<MAX_CHUNK_TOKENS, text, chunks, llm, disk, video_files, runVars>>

ParseQuestionsManually ==
    /\ pc = "call_parse"
    /\ ~llm.raised
    /\ questions' = parse_questions_manually(llm.response)
    /\ pc' = "ret_parse_questions_manually"
    /\ UNCHANGED <<MAX_CHUNK_TOKENS, text, chunks, llm, disk, video_files, runVars>>

NextParse == GenerateQuestionsFromChunk \/ ParseQuestionsManually

SpecParse == InitParse /\ [][NextParse]_vars

----------------------------------------------------------------------------
(* Specification of save_questions on every record list of the bounds *)

InitReport ==
    /\ pc = "call_save_questions"
    /\ MAX_CHUNK_TOKENS = 1
    /\ text = <<>>
    /\ chunks = <<>>
    /\ llm = Raised
    /\ questions \in SeqsUpTo(RecordPool, MaxQuestions)
    /\ disk = OutputDirs
    /\ video_files = <<HarnessVideo>>
    /\ NoRun

SaveQuestionsReturns ==
    /\ pc = "call_save_questions"
    /\ ~organize(video_files[1], questions).raised
    /\ disk' = save_questions(disk, video_files[1], questions)
    /\ pc' = "ret_save_questions"
    /\ UNCHANGED <<MAX_CHUNK_TOKENS, text, chunks, llm, questions, video_files, runVars>>

SaveQuestionsRaises ==
    /\ pc = "call_save_questions"
    /\ organize(video_files[1], questions).raised
    /\ pc' = "raise_save_questions"
    /\ UNCHANGED <<callVars, runVars>>

NextReport == SaveQuestionsReturns \/ SaveQuestionsRaises

SpecReport == InitReport /\ [][NextReport]_vars

----------------------------------------------------------------------------
(* Specification of find_video_files on every directory of the bounds *)

InitFind ==
    /\ pc = "call_find_video_files"
    /\ MAX_CHUNK_TOKENS = 1
    /\ text = <<>>
    /\ chunks = <<>>
    /\ llm = Raised
    /\ questions = <<>>
    /\ disk \in Disks
    /\ video_files = <<>>
    /\ NoRun

FindVideoFiles ==
    /\ pc = "call_find_video_files"
    /\ video_files' = find_video_files(disk)
    /\ pc' = "ret_find_video_files"
    /\ UNCHANGED <<MAX_CHUNK_TOKENS, text, chunks, llm, questions, disk, runVars>>

NextFind == FindVideoFiles

SpecFind == InitFind /\ [][NextFind]_vars

----------------------------------------------------------------------------
(* Specification of a run of main() on a directory of three videos.       *)
(* Writing a file succeeds; the calls to the video library, the           *)
(* recognizer and the model return or raise.                              *)

\* the videos of the run; two share a stem
BatchVideos == {<<N_B_MOV>>, <<N_a_avi>>, <<N_a_mp4>>}

\* the texts the recognizer returns
TranscriptPool == {<<>>, <<" ", " ">>, <<" ", "a", "a", " ", "b", "b", " ">>}

\* what ollama.generate does for a chunk
BatchReplies ==
    {Raised, Responded(LineQuestion), Responded(LineJsonRecord),
     Responded(LineJsonBoss), Responded(LineBadJson)}

\* process_all_videos walking its list from the end
video_file_reversed == video_files[Len(video_files) + 1 - idx]

\* the video process_all_videos is at
video_file == video_files[idx]

Init ==
    /\ pc = "start"
    /\ MAX_CHUNK_TOKENS \in 1..MaxChunkTokens
    /\ text = <<>>
    /\ chunks = <<>>
    /\ llm = Raised
    /\ questions = <<>>
    /\ disk = [p \in BatchVideos \cup {<<N_c_txt>>} |-> File(<<>>)]
    /\ video_files = <<>>
    /\ NoRun

\* VideoProcessor.__init__ returns: the output directories exist
MainInit ==
    /\ pc = "start"
    /\ disk' = Mkdir(Mkdir(disk, <<S_transcribed>>), <<S_questions>>)
    /\ pc' = "find"
    /\ UNCHANGED <<MAX_CHUNK_TOKENS, text, chunks, llm, questions, video_files,
                   runVars>>

\* whisper.load_model or _check_ollama_model raises, after the output
\* directories were made: main logs the error and exits with 1
MainInitRaises ==
    /\ pc = "start"
    /\ disk' = Mkdir(Mkdir(disk, <<S_transcribed>>), <<S_questions>>)
    /\ exit_status' = 1
    /\ pc' = "exit"
    /\ UNCHANGED <<MAX_CHUNK_TOKENS, text, chunks, llm, questions, video_files,
                   idx, state, transcript, ci, replies>>
    /\ UNCHANGED <<sent, outputs>>

\* process_all_videos lists the videos
ProcessAllVideosFind ==
    /\ pc = "find"
    /\ video_files' = find_video_files(disk)
    /\ state' = [v \in {video_files'[i] : i \in 1..Len(video_files')} |->
                    "Discovered"]
    /\ idx' = 1
    /\ pc' = "loop"
    /\ UNCHANGED <<MAX_CHUNK_TOKENS, text, chunks, llm, questions, disk,
                   transcript, ci, replies, exit_status>>
    /\ UNCHANGED <<sent, outputs>>

\* the loop takes the next video and process_video calls transcribe_video
ProcessVideoBegin ==
    /\ pc = "loop"
    /\ idx <= Len(video_files)
    /\ state' = [state EXCEPT ![video_file] = "Transcribing"]
    /\ pc' = "transcribe"
    /\ UNCHANGED <<callVars, idx, transcript, ci, replies, exit_status>>
    /\ UNCHANGED <<sent, outputs>>

\* process_all_videos without its try: the exception reaches main
SkipVideoAborts ==
    /\ state' = [state EXCEPT ![video_file] = "Failed"]
    /\ exit_status' = 1
    /\ pc' = "exit"
    /\ UNCHANGED idx

\* process_all_videos trying the failed video again
SkipVideoRetries ==
    /\ state' = [state EXCEPT ![video_file] = "Discovered"]
    /\ pc' = "loop"
    /\ UNCHANGED <<idx, exit_status>>

\* process_video re-raises and process_all_videos skips the video
SkipVideo ==
    /\ state' = [state EXCEPT ![video_file] = "Failed"]
    /\ idx' = idx + 1
    /\ pc' = "loop"
    /\ UNCHANGED exit_status

\* VideoFileClip or write_audiofile raises; the scratch file may have
\* been written in part
TranscribeAudioRaises ==
    /\ pc = "transcribe"
    /\ \E written \in BOOLEAN :
          disk' = IF written
                  THEN WriteFile(disk, audio_path(video_file), <<>>)
                  ELSE disk
    /\ SkipVideo
    /\ UNCHANGED <<MAX_CHUNK_TOKENS, text, chunks, llm, questions, video_files,
                   transcript, ci, replies>>
    /\ UNCHANGED <<sent, outputs>>

\* process_video saving a transcript although the recognizer raised
TranscribeRecognizerRaisesAfterSave ==
    /\ pc = "transcribe"
    /\ disk' = save_transcript(WriteFile(disk, audio_path(video_file), <<>>),
                               video_file, <<>>)
    /\ SkipVideo
    /\ UNCHANGED <<MAX_CHUNK_TOKENS, text, chunks, llm, questions, video_files,
                   transcript, ci, replies>>
    /\ UNCHANGED <<sent, outputs>>

\* the audio is written and whisper_model.transcribe raises
TranscribeRecognizerRaises ==
    /\ pc = "transcribe"
    /\ disk' = WriteFile(disk, audio_path(video_file), <<>>)
    /\ SkipVideo
    /\ UNCHANGED <<MAX_CHUNK_TOKENS, text, chunks, llm, questions, video_files,
                   transcript, ci, replies>>
    /\ UNCHANGED <<sent, outputs>>

\* transcribe_video returns: audio written, text recognized, audio
\* unlinked, text stripped
TranscribeReturns ==
    /\ pc = "transcribe"
    /\ \E recognized \in TranscriptPool :
          transcript' = strip(recognized)
    /\ disk' = Unlink(WriteFile(disk, audio_path(video_file), <<>>),
                      audio_path(video_file))
    /\ state' = [state EXCEPT ![video_file] = "Transcribed"]
    /\ pc' = "save_transcript"
    /\ UNCHANGED <<MAX_CHUNK_TOKENS, text, chunks, llm, questions, video_files,
                   idx, ci, replies, exit_status>>
    /\ UNCHANGED <<sent, outputs>>

\* save_transcript, then generate_questions chunks the transcript
ProcessVideoSaveTranscript ==
    /\ pc = "save_transcript"
    /\ disk' = save_transcript(disk, video_file, transcript)
    /\ state' = [state EXCEPT ![video_file] = "Extracting"]
    /\ chunks' = chunk_text(transcript, MAX_CHUNK_TOKENS)
    /\ questions' = <<>>
    /\ replies' = <<>>
    /\ ci' = 1
    /\ pc' = "generate"
    /\ UNCHANGED <<MAX_CHUNK_TOKENS, text, llm, video_files, idx, transcript,
                   exit_status>>
    /\ sent' = <<>>
    /\ UNCHANGED outputs

\* generate_questions leaving its loop at the first call that fails
GenerateQuestionsChunkBreaks ==
    /\ pc = "generate"
    /\ ci <= Len(chunks)
    /\ \E reply \in BatchReplies :
          /\ llm' = reply
          /\ replies' = Append(replies, reply)
          /\ questions' = questions \o generate_questions_from_chunk(reply)
          /\ ci' = IF reply.raised THEN Len(chunks) + 1 ELSE ci + 1
    /\ UNCHANGED <<pc, MAX_CHUNK_TOKENS, text, chunks, disk, video_files, idx,
                   state, transcript, exit_status>>
    /\ sent' = Append(sent, chunks[ci])
    /\ UNCHANGED outputs

\* generate_questions dropping the records it already holds
GenerateQuestionsChunkDedups ==
    /\ pc = "generate"
    /\ ci <= Len(chunks)
    /\ \E reply \in BatchReplies :
          /\ llm' = reply
          /\ replies' = Append(replies, reply)
          /\ questions' =
                questions \o
                SelectSeq(generate_questions_from_chunk(reply),
                          LAMBDA q : \A k \in 1..Len(questions) :
                                         questions[k] # q)
    /\ ci' = ci + 1
    /\ UNCHANGED <<pc, MAX_CHUNK_TOKENS, text, chunks, disk, video_files, idx,
                   state, transcript, exit_status>>
    /\ sent' = Append(sent, chunks[ci])
    /\ UNCHANGED outputs

\* one turn of the loop of generate_questions
GenerateQuestionsChunk ==
    /\ pc = "generate"
    /\ ci <= Len(chunks)
    /\ \E reply \in BatchReplies :
          /\ llm' = reply
          /\ replies' = Append(replies, reply)
          /\ questions' = questions \o generate_questions_from_chunk(reply)
    /\ ci' = ci + 1
    /\ UNCHANGED <<pc, MAX_CHUNK_TOKENS, text, chunks, disk, video_files, idx,
                   state, transcript, exit_status>>
    /\ sent' = Append(sent, chunks[ci])
    /\ UNCHANGED outputs

\* generate_questions returns and save_questions writes the report
ProcessVideoSaveQuestions ==
    /\ pc = "generate"
    /\ ci > Len(chunks)
    /\ ~organize(video_file, questions).raised
    /\ disk' = save_questions(disk, video_file, questions)
    /\ state' = [state EXCEPT ![video_file] = "Done"]
    /\ idx' = idx + 1
    /\ pc' = "loop"
    /\ UNCHANGED <<MAX_CHUNK_TOKENS, text, chunks, llm, questions, video_files,
                   transcript, ci, replies, exit_status>>
    /\ outputs' = (video_file :> [transcript |-> transcript,
                                  report |-> organize(video_file, questions).report])
                      @@ outputs
    /\ UNCHANGED sent

\* save_questions opening the questions file before it sorts the records
ProcessVideoSaveQuestionsRaisesAfterOpen ==
    /\ pc = "generate"
    /\ ci > Len(chunks)
    /\ organize(video_file, questions).raised
    /\ disk' = WriteFile(disk, questions_file(video_file), <<>>)
    /\ SkipVideo
    /\ UNCHANGED <<MAX_CHUNK_TOKENS, text, chunks, llm, questions, video_files,
                   transcript, ci, replies>>
    /\ UNCHANGED <<sent, outputs>>

\* generate_questions returns and save_questions raises
ProcessVideoSaveQuestionsRaises ==
    /\ pc = "generate"
    /\ ci > Len(chunks)
    /\ organize(video_file, questions).raised
    /\ SkipVideo
    /\ UNCHANGED <<callVars, transcript, ci, replies>>
    /\ UNCHANGED <<sent, outputs>>

\* main exiting with 1 when a video failed
MainReturnsFailure ==
    /\ pc = "loop"
    /\ idx > Len(video_files)
    /\ exit_status' = IF \E v \in DOMAIN state : state[v] = "Failed"
                      THEN 1 ELSE 0
    /\ pc' = "exit"
    /\ UNCHANGED <<callVars, idx, state, transcript, ci, replies>>
    /\ UNCHANGED <<sent, outputs>>

\* process_all_videos returns and main returns
MainReturns ==
    /\ pc = "loop"
    /\ idx > Len(video_files)
    /\ exit_status' = 0
    /\ pc' = "exit"
    /\ UNCHANGED <<callVars, idx, state, transcript, ci, replies>>
    /\ UNCHANGED <<sent, outputs>>

Next ==
    \/ MainInit
    \/ MainInitRaises
    \/ ProcessAllVideosFind
    \/ ProcessVideoBegin
    \/ TranscribeRecognizerRaises
    \/ TranscribeAudioRaises
    \/ TranscribeReturns
    \/ ProcessVideoSaveTranscript
    \/ GenerateQuestionsChunk
    \/ ProcessVideoSaveQuestions
    \/ ProcessVideoSaveQuestionsRaises
    \/ MainReturns

Spec == Init /\ [][Next]_vars

\* the run takes its next step: every call it blocks on returns or raises
FairSpec == Spec /\ WF_vars(Next)

----------------------------------------------------------------------------
(* C1: the chunks returned by chunk_text, joined with single spaces, equal *)
(* the whitespace-separated words of the input joined with single spaces,  *)
(* and the words of the chunks, in order, are the words of the input: no   *)
(* word is lost, duplicated, split or reordered.                           *)
ChunksRejoinToInput ==
    pc = "ret_chunk_text" =>
        /\ join(<<" ">>, chunks) = join(<<" ">>, split(text))
        /\ Flatten([k \in 1..Len(chunks) |-> split(chunks[k])]) = split(text)

\* a text of several words that chunk_text cut into several chunks
ChunksRejoinWitness ==
    /\ pc = "ret_chunk_text"
    /\ Len(chunks) >= 2
    /\ Len(split(text)) >= 3
    /\ \E k \in 1..Len(chunks) : Len(split(chunks[k])) >= 2

(* C2: no chunk is longer than the budget of MAX_CHUNK_TOKENS * 4          *)
(* characters, unless the chunk is a single word that alone is longer.     *)
ChunkWithinBudget ==
    pc = "ret_chunk_text" =>
        \A k \in 1..Len(chunks) :
            \/ Len(chunks[k]) <= chars_per_chunk(MAX_CHUNK_TOKENS)
            \/ /\ Len(split(chunks[k])) = 1
               /\ chunks[k] \in {split(text)[j] : j \in 1..Len(split(text))}

\* both cases occur: a word over the budget alone in its chunk, next to a
\* chunk of several words within the budget
ChunkWithinBudgetWitness ==
    /\ pc = "ret_chunk_text"
    /\ \E k \in 1..Len(chunks) :
          /\ Len(chunks[k]) > chars_per_chunk(MAX_CHUNK_TOKENS)
          /\ Len(split(chunks[k])) = 1
    /\ \E k \in 1..Len(chunks) :
          /\ Len(chunks[k]) <= chars_per_chunk(MAX_CHUNK_TOKENS)
          /\ Len(split(chunks[k])) >= 2

(* C6: when the structured extraction of the response fails (no bracketed  *)
(* span, or a span that is not valid JSON), generate_questions_from_chunk  *)
(* returns what the manual line parser returns for the response text.      *)
FallbackOnEveryParseFailure ==
    (/\ pc = "ret_generate_questions_from_chunk"
     /\ ~llm.raised
     /\ LET json_match == re_search_brackets(strip(llm.response))
        IN  \/ ~json_match.found
            \/ ~json_loads(json_match.group).ok)
    => questions = parse_questions_manually(strip(llm.response))

\* s from its first to its last character that is not whitespace
Trimmed(s) ==
    IF \A k \in 1..Len(s) : s[k] \in Whitespace
    THEN <<>>
    ELSE LET first == CHOOSE i \in 1..Len(s) :
                         /\ s[i] \notin Whitespace
                         /\ \A k \in 1..(i - 1) : s[k] \in Whitespace
             last == CHOOSE i \in 1..Len(s) :
                         /\ s[i] \notin Whitespace
                         /\ \A k \in (i + 1)..Len(s) : s[k] \in Whitespace
         IN  SubSeq(s, first, last)

\* the trimmed lines of s, in order
TrimmedLines(s) ==
    LET lines == splitOn(s, "\n")
    IN  [i \in 1..Len(lines) |-> Trimmed(lines[i])]

\* a trimmed line the manual parser takes for a question
IsQuestionLine(t) == (\E k \in 1..Len(t) : t[k] = "?") /\ Len(t) > 10

(* C10: _parse_questions_manually returns one record per line that holds  *)
(* a "?" and is longer than 10 characters once trimmed, in line order,     *)
(* with question = the trimmed line, speaker = "unknown" and type =        *)
(* "general"; the other lines add no record and are appended to none.      *)
ManualParserOneRecordPerQuestionLine ==
    pc = "ret_parse_questions_manually" =>
        LET asked == SelectSeq(TrimmedLines(llm.response), IsQuestionLine)
        IN  /\ Len(questions) = Len(asked)
            /\ \A k \in 1..Len(asked) :
                   questions[k] =
                       [kind |-> "dict",
                        pairs |-> << <<S_question, [kind |-> "str", chars |-> asked[k]]>>,
                                     <<S_speaker, [kind |-> "str", chars |-> S_unknown]>>,
                                     <<S_type, [kind |-> "str", chars |-> S_general]>> >>]

\* two question lines around a line with a "?" that is too short
ManualParserWitness ==
    /\ pc = "ret_parse_questions_manually"
    /\ Len(questions) = 2
    /\ LET lines == TrimmedLines(llm.response)
       IN  /\ Len(lines) = 3
           /\ IsQuestionLine(lines[1])
           /\ ~IsQuestionLine(lines[2])
           /\ \E k \in 1..Len(lines[2]) : lines[2][k] = "?"
           /\ IsQuestionLine(lines[3])

\* the sum of the lengths of the sequences of a bucket map
RECURSIVE BucketTotal(_, _)
BucketTotal(buckets, keys) ==
    IF keys = {} THEN 0
    ELSE LET k == CHOOSE k \in keys : TRUE
         IN  Len(buckets[k]) + BucketTotal(buckets, keys \ {k})

(* C8: the report save_questions builds has total_questions =              *)
(* len(all_questions) = the sum of the sizes of the by_speaker buckets =   *)
(* the sum of the sizes of the by_type buckets.                            *)
ReportTotalsAgree ==
    pc = "ret_save_questions" =>
        LET report == disk[questions_file(video_files[1])].content
        IN  /\ report.all_questions = questions
            /\ report.total_questions = Len(report.all_questions)
            /\ BucketTotal(report.by_speaker, DOMAIN report.by_speaker)
                   = report.total_questions
            /\ BucketTotal(report.by_type, DOMAIN report.by_type)
                   = report.total_questions

\* a report of three records that fill several buckets, one of them by
\* the default of a record that names no speaker
ReportTotalsWitness ==
    /\ pc = "ret_save_questions"
    /\ Len(questions) = 3
    /\ \E k \in 1..3 : \A i \in 1..Len(questions[k].pairs) :
           questions[k].pairs[i][1] # S_speaker
    /\ LET report == disk[questions_file(video_files[1])].content
       IN  /\ Cardinality({b \in DOMAIN report.by_speaker :
                               report.by_speaker[b] # <<>>}) >= 2
           /\ Cardinality({b \in DOMAIN report.by_type :
                               report.by_type[b] # <<>>}) >= 2

\* the name n ends with the extension e, whatever the case of its letters,
\* and does not begin with it
HasExtension(n, e) ==
    /\ Len(n) > Len(e)
    /\ \A k \in 1..Len(e) :
          LET c == n[Len(n) - Len(e) + k]
          IN  \/ c = e[k]
              \/ \E u \in 1..26 : UpperCase[u] = c /\ LowerCase[u] = e[k]

\* the direct children of the working directory that are video files
VideoChildren(d) ==
    {p \in DOMAIN d :
        /\ Len(p) = 1
        /\ d[p].kind = "file"
        /\ \E e \in SUPPORTED_EXTENSIONS : HasExtension(p[1], e)}

(* C9: find_video_files returns exactly the direct children of the        *)
(* working directory that are regular files with an extension of the       *)
(* allow-list, compared without regard to case, sorted by path, each once; *)
(* subdirectories, what they hold and other files are not returned, and    *)
(* the call leaves the disk as it was.                                     *)
FindReturnsVideoChildren ==
    [][(pc = "call_find_video_files" /\ pc' = "ret_find_video_files") =>
          /\ {video_files'[i] : i \in 1..Len(video_files')} = VideoChildren(disk)
          /\ \A i \in 1..(Len(video_files') - 1) :
                 pathLess(video_files'[i], video_files'[i + 1])
          /\ disk' = disk]_vars

\* a directory with videos in both cases, another file, a subdirectory
\* holding a video and a directory named like a video
FindWitness ==
    /\ pc = "ret_find_video_files"
    /\ video_files = << <<N_B_MOV>>, <<N_a_mp4>>, <<N_d_x_mkv>> >>
    /\ {<<N_c_txt>>, <<N_dot_mp4>>, <<N_sub, N_e_mp4>>, <<N_f_avi>>}
           \subseteq DOMAIN disk

(* C3: transcribe_video deletes the scratch audio file on every exit path: *)
(* when it returns and when audio extraction or the recognizer raises,     *)
(* the scratch file of the video does not exist.                           *)
ScratchFileAlwaysDeleted ==
    [][(pc = "transcribe" /\ pc' # "transcribe") =>
          audio_path(video_file) \notin DOMAIN disk']_vars

\* the video has reached Done or Failed
Settled(v) == v \in DOMAIN state /\ state[v] \in {"Done", "Failed"}

(* C4: a video that fails does not end the batch: the loop goes on to the  *)
(* next video with the later videos still to be processed, and every       *)
(* discovered video eventually reaches Done or Failed.                     *)
PartialFailureIsolation ==
    /\ (pc = "loop") ~>
           (/\ pc = "exit"
            /\ exit_status = 0
            /\ \A i \in 1..Len(video_files) : Settled(video_files[i]))
    /\ [][\A v \in DOMAIN state :
             (state[v] # "Failed" /\ state'[v] = "Failed") =>
                 /\ pc' = "loop"
                 /\ idx' = idx + 1
                 /\ exit_status' = -1
                 /\ \A i \in idx'..Len(video_files') :
                        state'[video_files'[i]] = "Discovered"]_vars

\* the first video failed and the two after it were processed to the end
PartialFailureWitness ==
    /\ pc = "exit"
    /\ exit_status = 0
    /\ Len(video_files) = 3
    /\ state[video_files[1]] = "Failed"
    /\ state[video_files[2]] = "Done"
    /\ state[video_files[3]] = "Done"

\* the moves of a video's state
Transitions ==
    {<<"Discovered", "Transcribing">>, <<"Transcribing", "Transcribed">>,
     <<"Transcribed", "Extracting">>, <<"Extracting", "Done">>,
     <<"Transcribing", "Failed">>, <<"Extracting", "Failed">>}

(* C5: a video's state moves only along Discovered -> Transcribing ->      *)
(* Transcribed -> Extracting -> Done, or from Transcribing or Extracting   *)
(* to Failed; nothing leaves Done or Failed and nothing returns to an      *)
(* earlier state, so no video is transcribed twice.                        *)
StateMovesAlongLifecycle ==
    [][/\ DOMAIN state \subseteq DOMAIN state'
       /\ \A v \in DOMAIN state' \ DOMAIN state : state'[v] = "Discovered"
       /\ \A v \in DOMAIN state :
             state'[v] # state[v] => <<state[v], state'[v]>> \in Transitions]_vars

\* a run that ended with a video Done, one Failed while transcribing and
\* one Failed while extracting
LifecycleWitness ==
    /\ pc = "exit"
    /\ Len(video_files) = 3
    /\ state[video_files[1]] = "Failed"
    /\ transcript_file(video_files[1]) \notin DOMAIN disk
    /\ state[video_files[2]] = "Done"
    /\ state[video_files[3]] = "Failed"
    /\ replies # <<>>

(* C7: a failed call of the model gives the chunk an empty list and does   *)
(* not raise: the loop of generate_questions goes on to the next chunk,    *)
(* every chunk is sent, and the questions of the other chunks are in the   *)
(* result.                                                                 *)
ModelFailureSkipsOnlyItsChunk ==
    /\ [](pc = "generate" =>
            /\ state[video_file] = "Extracting"
            /\ Len(replies) = ci - 1
            /\ ci <= Len(chunks) + 1
            /\ questions =
                  Flatten([i \in 1..Len(replies) |->
                              IF replies[i].raised THEN <<>>
                              ELSE generate_questions_from_chunk(replies[i])]))
    /\ [][(pc = "generate" /\ ci <= Len(chunks)) =>
             (pc' = "generate" /\ ci' = ci + 1)]_vars

\* the call for the first of two chunks failed and the questions of the
\* second are the result
ModelFailureWitness ==
    /\ pc = "generate"
    /\ Len(chunks) = 2
    /\ ci = 3
    /\ replies[1].raised
    /\ ~replies[2].raised
    /\ questions # <<>>

\* the text holds a character that is not whitespace
HasWord(s) == \E i \in 1..Len(s) : s[i] \notin Whitespace

(* C11 as stated: for every text shorter than the budget, chunk_text       *)
(* returns exactly one chunk, the whitespace-normalized input.             *)
ShortTextIsOneChunk ==
    (pc = "ret_chunk_text" /\ Len(text) < chars_per_chunk(MAX_CHUNK_TOKENS)) =>
        chunks = <<join(<<" ">>, split(text))>>

(* C11 amended: for every text shorter than the budget that holds at least *)
(* one word, chunk_text returns exactly one chunk, the whitespace-         *)
(* normalized input.                                                       *)
ShortTextWithWordIsOneChunk ==
    (/\ pc = "ret_chunk_text"
     /\ Len(text) < chars_per_chunk(MAX_CHUNK_TOKENS)
     /\ HasWord(text)) =>
        chunks = <<join(<<" ">>, split(text))>>

\* a text of two words, shorter than the budget, came back as one chunk
ShortTextWitness ==
    /\ pc = "ret_chunk_text"
    /\ Len(text) < chars_per_chunk(MAX_CHUNK_TOKENS)
    /\ Len(split(text)) >= 2
    /\ Len(chunks) = 1

(* C12: for the empty text and for every text of whitespace only,          *)
(* chunk_text returns the empty list of chunks (never a list holding an    *)
(* empty chunk), the same for every such input.                            *)
WhitespaceOnlyGivesNoChunk ==
    (pc = "ret_chunk_text" /\ ~HasWord(text)) => chunks = <<>>

\* a text of several whitespace characters came back as no chunk
WhitespaceOnlyWitness ==
    /\ pc = "ret_chunk_text"
    /\ Len(text) >= 2
    /\ ~HasWord(text)
    /\ chunks = <<>>

\* the joined length of the first n words of chunk k
PrefixLength(k, n) == Len(join(<<" ">>, SubSeq(split(chunks[k]), 1, n)))

(* C19 as stated: a chunk ends before a word exactly when the chunk is     *)
(* non-empty and its joined length plus one separator plus the length of   *)
(* the word exceeds the budget; otherwise the word is appended.            *)
NewChunkExactlyWhenOverBudget ==
    pc = "ret_chunk_text" =>
        LET budget == chars_per_chunk(MAX_CHUNK_TOKENS)
        IN  /\ \A k \in 1..(Len(chunks) - 1) :
                  Len(chunks[k]) + 1 + Len(split(chunks[k + 1])[1]) > budget
            /\ \A k \in 1..Len(chunks) :
                  \A n \in 2..Len(split(chunks[k])) :
                      PrefixLength(k, n - 1) + 1 + Len(split(chunks[k])[n])
                          <= budget

(* C19 amended: a chunk ends before a word exactly when the chunk is       *)
(* non-empty and its joined length plus one separator plus the length of   *)
(* the word plus one more separator exceeds the budget, that is when the   *)
(* chunk with the word would reach the budget; otherwise the word is       *)
(* appended, so every chunk is maximal with respect to budget - 1.         *)
NewChunkExactlyWhenReachingBudget ==
    pc = "ret_chunk_text" =>
        LET budget == chars_per_chunk(MAX_CHUNK_TOKENS)
        IN  /\ \A k \in 1..(Len(chunks) - 1) :
                  Len(chunks[k]) + 1 + Len(split(chunks[k + 1])[1]) + 1 > budget
            /\ \A k \in 1..Len(chunks) :
                  \A n \in 2..Len(split(chunks[k])) :
                      PrefixLength(k, n - 1) + 1 + Len(split(chunks[k])[n]) + 1
                          <= budget

\* a chunk ended before a word that would have filled it to the budget
\* exactly, and another chunk took a second word
NewChunkWitness ==
    /\ pc = "ret_chunk_text"
    /\ \E k \in 1..(Len(chunks) - 1) :
          Len(chunks[k]) + 1 + Len(split(chunks[k + 1])[1])
              = chars_per_chunk(MAX_CHUNK_TOKENS)
    /\ \E k \in 1..Len(chunks) : Len(split(chunks[k])) >= 2

(* C20: every word longer than the budget is a chunk by itself, whatever   *)
(* precedes or follows it: the over-long words of the input, in order, are *)
(* the over-long chunks, and a chunk that holds an over-long word holds    *)
(* nothing else.                                                           *)
OverlongWordIsAChunk ==
    pc = "ret_chunk_text" =>
        LET Overlong(w) == Len(w) > chars_per_chunk(MAX_CHUNK_TOKENS)
        IN  /\ SelectSeq(split(text), Overlong) = SelectSeq(chunks, Overlong)
            /\ \A k \in 1..Len(chunks) :
                  (\E n \in 1..Len(split(chunks[k])) :
                       Overlong(split(chunks[k])[n])) =>
                      Len(split(chunks[k])) = 1

\* an over-long word between two short words is the middle chunk of three
OverlongWordWitness ==
    /\ pc = "ret_chunk_text"
    /\ Len(split(text)) = 3
    /\ Len(split(text)[2]) > chars_per_chunk(MAX_CHUNK_TOKENS)
    /\ Len(chunks) = 3
    /\ chunks[2] = split(text)[2]

\* the value of the key in the record, 'absent' where the record lacks it
Field(record, key) == dictGet(record, key, PyLit("absent"))

(* C13: when the response is a valid JSON list, generate_questions_from_-  *)
(* chunk returns one record per element of the list, in order, and every   *)
(* returned record has a speaker and a type: those of the element, or      *)
(* 'unknown' and 'general' where the element omits them.                   *)
ValidListGivesCompleteRecords ==
    (pc = "ret_generate_questions_from_chunk" /\ ~llm.raised) =>
        LET loaded == json_loads(strip(llm.response))
        IN  (loaded.ok /\ loaded.val.kind = "list") =>
                /\ Len(questions) = Len(loaded.val.items)
                /\ \A k \in 1..Len(loaded.val.items) :
                      loaded.val.items[k].kind = "dict" =>
                          /\ questions[k].kind = "dict"
                          /\ Field(questions[k], S_question)
                                 = Field(loaded.val.items[k], S_question)
                          /\ Field(questions[k], S_speaker)
                                 = dictGet(loaded.val.items[k], S_speaker,
                                           PyStr(S_unknown))
                          /\ Field(questions[k], S_type)
                                 = dictGet(loaded.val.items[k], S_type,
                                           PyStr(S_general))

\* the sum of the lengths of the lists of a sequence of lists
RECURSIVE TotalLen(_)
TotalLen(ss) == IF ss = <<>> THEN 0 ELSE Len(ss[1]) + TotalLen(Tail(ss))

\* the record list each chunk sent so far produced, in chunk order
PerChunkRecords ==
    [i \in 1..Len(replies) |-> generate_questions_from_chunk(replies[i])]

(* C14: generate_questions returns the concatenation, in chunk order, of   *)
(* the record lists of its chunks, without deduplication: when its loop is *)
(* over, one list per chunk was produced, the result is their              *)
(* concatenation and its length is the sum of their lengths.               *)
AllQuestionsIsConcatenation ==
    (pc = "generate" /\ ci > Len(chunks)) =>
        /\ Len(replies) = Len(chunks)
        /\ questions = Flatten(PerChunkRecords)
        /\ Len(questions) = TotalLen(PerChunkRecords)

\* two chunks produced the same record and the result holds it twice
AllQuestionsWitness ==
    /\ pc = "generate"
    /\ Len(chunks) = 2
    /\ ci = 3
    /\ ~replies[1].raised
    /\ replies[1] = replies[2]
    /\ Len(questions) = 2
    /\ questions[1] = questions[2]

(* C15: the outputs of a video are independent of the other videos of the *)
(* batch: from the moment a video is Done, its transcript file holds the   *)
(* transcript of that video and its questions file the report of that      *)
(* video; processing another video never overwrites or deletes them.       *)
OutputsOfDoneVideosStay ==
    \A v \in DOMAIN state :
        state[v] = "Done" =>
            /\ transcript_file(v) \in DOMAIN disk
            /\ disk[transcript_file(v)] = File(outputs[v].transcript)
            /\ questions_file(v) \in DOMAIN disk
            /\ disk[questions_file(v)] = File(outputs[v].report)

\* the directories a run has written nothing into
NothingWritten ==
    \A p \in DOMAIN disk : Len(p) = 2 => p[1] \notin {S_transcribed, S_questions}

(* C16: the exit status is 0 whenever the batch ran to its end, also when  *)
(* some or all videos failed, and it is not 0 when the startup failed, in  *)
(* which case no video was processed; while the run goes on there is no    *)
(* exit status.                                                            *)
ExitStatusTellsStartupFromBatch ==
    /\ pc # "exit" => exit_status = -1
    /\ pc = "exit" =>
          \/ /\ exit_status = 0
             /\ idx = Len(video_files) + 1
             /\ \A i \in 1..Len(video_files) : Settled(video_files[i])
          \/ /\ exit_status > 0
             /\ idx = 0
             /\ video_files = <<>>
             /\ DOMAIN state = {}
             /\ DOMAIN outputs = {}
             /\ replies = <<>>
             /\ NothingWritten

\* the run ended with status 0 although every video failed
ExitStatusWitness ==
    /\ pc = "exit"
    /\ exit_status = 0
    /\ Len(video_files) = 3
    /\ \A i \in 1..3 : state[video_files[i]] = "Failed"

\* the name up to its last dot
BeforeLastDot(n) ==
    SubSeq(n, 1, (CHOOSE i \in 1..Len(n) :
                     n[i] = "." /\ \A j \in (i + 1)..Len(n) : n[j] # ".") - 1)

(* C17: when process_video returns for a video (the video becomes Done),   *)
(* transcribed/<stem>_transcript.txt holds exactly the trimmed text of the *)
(* recognizer, and questions/<stem>_questions.json exists with             *)
(* total_questions the number of extracted records and all_questions       *)
(* those records in order.                                                 *)
DoneVideoHasBothFiles ==
    [][\A v \in DOMAIN state :
          (state[v] # "Done" /\ state'[v] = "Done") =>
              LET t == <<S_transcribed, BeforeLastDot(name(v)) \o S_transcript_txt>>
                  q == <<S_questions, BeforeLastDot(name(v)) \o S_questions_json>>
              IN  /\ t \in DOMAIN disk'
                  /\ disk'[t] = File(transcript)
                  /\ transcript \in {Trimmed(r) : r \in TranscriptPool}
                  /\ q \in DOMAIN disk'
                  /\ disk'[q].kind = "file"
                  /\ disk'[q].content.total_questions = Len(questions)
                  /\ disk'[q].content.all_questions = questions]_vars

\* the first video is Done with a transcript of two words and two records
DoneVideoWitness ==
    /\ pc = "loop"
    /\ idx = 2
    /\ state[video_files[1]] = "Done"
    /\ disk[transcript_file(video_files[1])].content # <<>>
    /\ disk[questions_file(video_files[1])].content.total_questions = 2

\* the states of a video that is being processed
Active == {"Transcribing", "Transcribed", "Extracting"}

(* C18: processing is sequential and in a fixed order: the videos are      *)
(* started in the sorted order of discovery, a video is Done or Failed     *)
(* before the next leaves Discovered, at most one video is being           *)
(* processed, and within a video the model is called on the chunks in      *)
(* their order.                                                            *)
SequentialInDiscoveryOrder ==
    /\ \A i \in 1..Len(video_files) : \A j \in (i + 1)..Len(video_files) :
          /\ strLess(name(video_files[i]), name(video_files[j]))
          /\ state[video_files[j]] # "Discovered" => Settled(video_files[i])
    /\ Cardinality({v \in DOMAIN state : state[v] \in Active}) <= 1
    /\ pc = "generate" =>
          /\ Len(sent) = ci - 1
          /\ sent = SubSeq(chunks, 1, Len(sent))

\* the third video is at its second chunk, the two before it are settled
SequentialWitness ==
    /\ pc = "generate"
    /\ idx = 3
    /\ Len(chunks) = 2
    /\ chunks[1] # chunks[2]
    /\ sent = chunks

\* the records of qs whose field key names the bucket b, in the order of qs
NamedBy(qs, key, b) ==
    SelectSeq(qs, LAMBDA q : q.kind = "dict" /\ Field(q, key) = PyStr(b))

(* C21: in the report save_questions builds, every bucket of by_speaker    *)
(* holds exactly the records of all_questions whose speaker field names    *)
(* the bucket, once each and in the order of all_questions, and every      *)
(* bucket of by_type those whose type field names it: every record is in   *)
(* one bucket of each grouping and the buckets of a grouping are disjoint. *)
BucketsFollowFields ==
    pc = "ret_save_questions" =>
        LET report == disk[questions_file(video_files[1])].content
        IN  /\ DOMAIN report.by_speaker = SpeakerBuckets
            /\ DOMAIN report.by_type = TypeBuckets
            /\ \A b \in SpeakerBuckets :
                  report.by_speaker[b]
                      = NamedBy(report.all_questions, S_speaker, b)
            /\ \A b \in TypeBuckets :
                  report.by_type[b]
                      = NamedBy(report.all_questions, S_type, b)

\* the step leaves what is at path p as it was
SameAt(p) ==
    /\ p \in DOMAIN disk' <=> p \in DOMAIN disk
    /\ p \in DOMAIN disk => disk'[p] = disk[p]

(* C22: the transcript file is written before the extraction starts and    *)
(* the questions file is written only by the step that ends the video      *)
(* Done: while a video is extracted its transcript file holds its          *)
(* transcript, and a video that fails in the extraction ends Failed with   *)
(* that transcript file and without its questions file having been         *)
(* written while it was processed.                                         *)
ExtractionFailureKeepsTranscriptOnly ==
    /\ [](\A v \in DOMAIN state :
             state[v] = "Extracting" =>
                 /\ transcript_file(v) \in DOMAIN disk
                 /\ disk[transcript_file(v)] = File(transcript))
    /\ [][\A v \in DOMAIN state :
             /\ ((state[v] \in Active \/ state'[v] \in Active)
                     /\ state'[v] # "Done") =>
                    SameAt(questions_file(v))
             /\ (state[v] = "Extracting" /\ state'[v] = "Failed") =>
                    /\ transcript_file(v) \in DOMAIN disk'
                    /\ disk'[transcript_file(v)] = File(transcript)]_vars

\* the first video failed while its records were sorted: its transcript
\* is there, its questions file is not
ExtractionFailureWitness ==
    /\ pc = "loop"
    /\ idx = 2
    /\ state[video_files[1]] = "Failed"
    /\ questions # <<>>
    /\ transcript_file(video_files[1]) \in DOMAIN disk
    /\ questions_file(video_files[1]) \notin DOMAIN disk

(* C23: a video that fails while it is transcribed ends Failed without a   *)
(* call of the model and without a write of its transcript file or of its  *)
(* questions file: from the step that starts the transcription to the step *)
(* that ends it Failed, the calls made so far and both files stay as they  *)
(* were.                                                                   *)
TranscriptionFailureWritesNothing ==
    [][\A v \in DOMAIN state :
          (\/ state'[v] = "Transcribing"
           \/ (state[v] = "Transcribing" /\ state'[v] = "Failed")) =>
              /\ SameAt(transcript_file(v))
              /\ SameAt(questions_file(v))
              /\ sent' = sent
              /\ replies' = replies
              /\ llm' = llm]_vars

\* the first video failed while it was transcribed: only its scratch
\* audio is there and the model was not called
TranscriptionFailureWitness ==
    /\ pc = "loop"
    /\ idx = 2
    /\ state[video_files[1]] = "Failed"
    /\ audio_path(video_files[1]) \in DOMAIN disk
    /\ transcript_file(video_files[1]) \notin DOMAIN disk
    /\ questions_file(video_files[1]) \notin DOMAIN disk
    /\ replies = <<>>
    /\ sent = <<>>

(* C24: the model is called exactly once for every chunk of the transcript *)
(* of a video, in order: when the extraction of a video ends, the chunks   *)
(* sent are the chunks of the transcript and their words the words of the  *)
(* transcript; a video whose transcript holds no word causes no call and   *)
(* ends Done with a questions file of total_questions 0 and empty buckets. *)
OneCallPerChunk ==
    [][\A v \in DOMAIN state :
          (state[v] = "Extracting" /\ state'[v] # "Extracting") =>
              /\ sent = chunks
              /\ Len(replies) = Len(chunks)
              /\ Flatten([k \in 1..Len(sent) |-> split(sent[k])])
                     = split(transcript)
              /\ ~HasWord(transcript) =>
                    /\ sent = <<>>
                    /\ replies = <<>>
                    /\ state'[v] = "Done"
                    /\ questions_file(v) \in DOMAIN disk'
                    /\ LET report == disk'[questions_file(v)].content
                       IN  /\ report.total_questions = 0
                           /\ report.all_questions = <<>>
                           /\ \A b \in SpeakerBuckets :
                                 report.by_speaker[b] = <<>>
                           /\ \A b \in TypeBuckets :
                                 report.by_type[b] = <<>>]_vars

\* the first video had an empty transcript: no call was made and it is Done
\* with an empty report
OneCallPerChunkWitness ==
    /\ pc = "loop"
    /\ idx = 2
    /\ state[video_files[1]] = "Done"
    /\ outputs[video_files[1]].transcript = <<>>
    /\ sent = <<>>
    /\ disk[questions_file(video_files[1])].content.total_questions = 0

=============================================================================
